---- MODULE Spec2Model ----
(***************************************************************************)
(* A model of pretty_midi.py: the PrettyMIDI container (tempo map,         *)
(* tick-to-time lookup, instrument reconstruction), its queries            *)
(* (get_onsets, get_piano_roll, get_chroma, synthesize) and the            *)
(* Instrument piano roll.                                                  *)
(*                                                                         *)
(* Times are exact multiples of 1/UnitsPerSecond = 1/256 second.  The     *)
(* resolutions and tempi of the inputs are chosen so that                  *)
(* 60/(bpm*resolution) is a whole number of units; every time is then a    *)
(* dyadic rational that IEEE doubles hold exactly, the sums and products   *)
(* of the code are exact, and the integer arithmetic below is the          *)
(* arithmetic of the code.                                                 *)
(***************************************************************************)
EXTENDS Integers, Sequences, FiniteSets, TLC

VARIABLES resolution, tracks, pc, tick_scales, tick_to_time, warned,
          instruments, track_idx, event_idx, last_note_on, current_instrument,
          roll_self, roll_times, roll_result, query

\* the state of a PrettyMIDI under construction
init_vars == <<resolution, tracks, pc, tick_scales, tick_to_time, warned,
               instruments, track_idx, event_idx, last_note_on, current_instrument>>

\* the last call of Instrument.get_piano_roll: its receiver, its argument, its outcome
roll_vars == <<roll_self, roll_times, roll_result>>

\* the last query made of the built PrettyMIDI: its name and its outcome
query_vars == <<query>>

vars == <<init_vars, roll_vars, query_vars>>

(***************************************************************************)
(* Bounds of the model                                                     *)
(***************************************************************************)
MaxLen == 3
MaxStep == 1
MaxTempoEvents == 2
MaxTick == 3

(***************************************************************************)
(* Program constants                                                       *)
(***************************************************************************)
fs == 100
DefaultBPM == 120
NumChannels == 16
DrumChannel == 9
UnitsPerSecond == 2^8

(***************************************************************************)
(* Events of the parsed MIDI stream (python-midi events after              *)
(* make_ticks_abs): every event carries every field, unused ones are 0.    *)
(***************************************************************************)
Event(name, tick, channel, pitch, velocity, data, bpm) ==
    [name |-> name, tick |-> tick, channel |-> channel, pitch |-> pitch,
     velocity |-> velocity, data |-> data, bpm |-> bpm]

SetTempo(tick, bpm) == Event("Set Tempo", tick, 0, 0, 0, 0, bpm)
ProgramChange(tick, ch, program) == Event("Program Change", tick, ch, 0, 0, program, 0)
NoteOnEvent(tick, ch, pitch, vel) == Event("Note On", tick, ch, pitch, vel, 0, 0)
NoteOffEvent(tick, ch, pitch, vel) == Event("Note Off", tick, ch, pitch, vel, 0, 0)
PitchWheel(tick, ch, raw) == Event("Pitch Wheel", tick, ch, raw, 0, 0, 0)
EndOfTrack(tick) == Event("End of Track", tick, 0, 0, 0, 0, 0)

Max(a, b) == IF a >= b THEN a ELSE b
Min(a, b) == IF a <= b THEN a ELSE b

RECURSIVE SeqMax(_)
SeqMax(s) == IF Len(s) = 1 THEN s[1] ELSE Max(s[1], SeqMax(Tail(s)))

(***************************************************************************)
(* _get_tempo_changes                                                      *)
(***************************************************************************)
\* 60.0/(bpm*resolution), in time units
TickScale(bpm, res) == (60 * UnitsPerSecond) \div (bpm * res)

\* the loop body without the test for a repeated tempo
TempoEventNoRepeatTest(scales, event, res) ==
    IF event.name = "Set Tempo"
    THEN IF event.tick = 0
         THEN << <<0, TickScale(event.bpm, res)>> >>
         ELSE Append(scales, <<event.tick, TickScale(event.bpm, res)>>)
    ELSE scales

\* the body of the loop over track 0, for one event
TempoEvent(scales, event, res) ==
    IF event.name = "Set Tempo"
    THEN IF event.tick = 0
         THEN << <<0, TickScale(event.bpm, res)>> >>
         ELSE LET last_tick_scale == scales[Len(scales)][2]
                  tick_scale == TickScale(event.bpm, res)
              IN  IF tick_scale # last_tick_scale
                  THEN Append(scales, <<event.tick, tick_scale>>)
                  ELSE scales
    ELSE scales

RECURSIVE TempoLoop(_, _, _)
TempoLoop(scales, track, res) ==
    IF track = <<>> THEN scales
    ELSE TempoLoop(TempoEvent(scales, Head(track), res), Tail(track), res)

\* every track read for tempo changes
TempoTracksAll(midi_tracks) == midi_tracks

\* the tracks whose events _get_tempo_changes reads
TempoTracks(midi_tracks) == <<midi_tracks[1]>>

RECURSIVE TempoScan(_, _, _)
TempoScan(scales, midi_tracks, res) ==
    IF midi_tracks = <<>> THEN scales
    ELSE TempoScan(TempoLoop(scales, Head(midi_tracks), res), Tail(midi_tracks), res)

GetTempoChangesOf(midi_tracks, res) ==
    TempoScan(<< <<0, TickScale(DefaultBPM, res)>> >>, TempoTracks(midi_tracks), res)

(***************************************************************************)
(* _update_tick_to_time.  The array indexed by tick 0..max_tick-1 is the   *)
(* sequence whose element tick+1 is the time of that tick.                 *)
(***************************************************************************)
\* the ramp counted from 1
RampSliceFromOne(arr, lo, hi, base, scale) ==
    [i \in 1..Len(arr) |->
        IF lo + 1 <= i /\ i <= hi THEN base + scale * (i - lo) ELSE arr[i]]

\* arr[lo:hi] = base + scale*arange(hi - lo)
RampSlice(arr, lo, hi, base, scale) ==
    [i \in 1..Len(arr) |->
        IF lo + 1 <= i /\ i <= hi THEN base + scale * (i - 1 - lo) ELSE arr[i]]

\* last_end_time left at 0
LastEndTimeReset(arr, end_tick) == 0

\* last_end_time = self.tick_to_time[end_tick]
LastEndTime(arr, end_tick) == arr[end_tick + 1]

RECURSIVE TickLoop(_, _, _, _)
TickLoop(arr, scales, n, last_end_time) ==
    IF n >= Len(scales)
    THEN \* the final interval
         RampSlice(arr, scales[Len(scales)][1], Len(arr), last_end_time, scales[Len(scales)][2])
    ELSE LET start_tick == scales[n][1]
             tick_scale == scales[n][2]
             end_tick   == scales[n + 1][1]
             filled     == RampSlice(arr, start_tick, end_tick + 1, last_end_time, tick_scale)
         IN  TickLoop(filled, scales, n + 1, LastEndTime(filled, end_tick))

UpdateTickToTimeOf(scales, max_tick) ==
    TickLoop([i \in 1..max_tick |-> 0], scales, 1, 0)

\* max([max([event.tick for event in track]) for track in midi_data]) + 1
TrackTicks(track) == [i \in 1..Len(track) |-> track[i].tick]
\* the ticks of track 0 alone
MaxTickOfTrack0(midi_tracks) == SeqMax(TrackTicks(midi_tracks[1])) + 1

MaxTickOf(midi_tracks) ==
    SeqMax([t \in 1..Len(midi_tracks) |-> SeqMax(TrackTicks(midi_tracks[t]))]) + 1

\* self.tick_to_time[tick]
TimeOf(tick) == tick_to_time[tick + 1]

(***************************************************************************)
(* _get_instruments: the state kept while the tracks are read              *)
(***************************************************************************)
\* a Note with start and end exchanged
NoteSwapped(velocity, pitch, start, end) ==
    [velocity |-> velocity, pitch |-> pitch, start |-> end, end |-> start]

\* Note.__init__
Note(velocity, pitch, start, end) ==
    [velocity |-> velocity, pitch |-> pitch, start |-> start, end |-> end]

Instrument(program, is_drum) ==
    [program |-> program, is_drum |-> is_drum, events |-> <<>>, pitch_changes |-> <<>>]

\* current_instrument = np.zeros(16, dtype=np.int)
ZeroPrograms == [c \in 0..(NumChannels - 1) |-> 0]

\* is_drum never set
IsDrumNever(event) == FALSE

\* is_drum = (event.channel == 9)
IsDrum(event) == event.channel = DrumChannel

\* a key that holds the channel as well
NoteKeyWithChannel(programs, event) ==
    <<programs[event.channel], IsDrum(event), event.pitch, event.channel>>

\* the key (instrument, is_drum, note) of last_note_on for an event
NoteKey(programs, event) == <<programs[event.channel], IsDrum(event), event.pitch>>

\* the key a note-off looks up in last_note_on
NoteOffKey(programs, event) == NoteKey(programs, event)

\* instrument.program == current_instrument[event.channel] and instrument.is_drum == is_drum
Matches(instrument, programs, event) ==
    /\ instrument.program = programs[event.channel]
    /\ instrument.is_drum = IsDrum(event)

\* instrument_exists never set
InstrumentExistsNever(insts, programs, event) == FALSE

\* instrument_exists after the loop over self.instruments
InstrumentExists(insts, programs, event) ==
    \E i \in 1..Len(insts) : Matches(insts[i], programs, event)

\* a value stored only for a key that is not there
DictSetKeepFirst(d, key, value) ==
    [k \in (DOMAIN d) \cup {key} |-> IF k \in DOMAIN d THEN d[k] ELSE value]

\* last_note_on[key] = value
DictSet(d, key, value) ==
    [k \in (DOMAIN d) \cup {key} |-> IF k = key THEN value ELSE d[k]]

\* the key left in the dictionary
DictDelKeep(d, key) == d

\* del last_note_on[key]
DictDel(d, key) == [k \in (DOMAIN d) \ {key} |-> d[k]]

\* the velocity given to the Note appended to an instrument that exists already
ExistingNoteVelocity(velocity, event) == velocity

\* the velocity given to the Note appended to an instrument created for it
NewNoteVelocity(velocity, event) == event.velocity

\* the Note put before the notes of the instrument
AppendToExistingFront(insts, programs, event, note) ==
    [i \in 1..Len(insts) |->
        IF Matches(insts[i], programs, event)
        THEN [insts[i] EXCEPT !.events = <<note>> \o @]
        ELSE insts[i]]

\* the loop over self.instruments of a matched note-off
AppendToExisting(insts, programs, event, note) ==
    [i \in 1..Len(insts) |->
        IF Matches(insts[i], programs, event)
        THEN [insts[i] EXCEPT !.events = Append(@, note)]
        ELSE insts[i]]

\* the new instrument left without its Note
AddNoteNewEmpty(insts, programs, event, start, velocity, end) ==
    IF InstrumentExists(insts, programs, event)
    THEN AppendToExisting(insts, programs, event,
             Note(ExistingNoteVelocity(velocity, event), event.pitch, start, end))
    ELSE Append(insts, Instrument(programs[event.channel], IsDrum(event)))

\* the whole body of a matched note-off, on the list of instruments
AddNote(insts, programs, event, start, velocity, end) ==
    IF InstrumentExists(insts, programs, event)
    THEN AppendToExisting(insts, programs, event,
             Note(ExistingNoteVelocity(velocity, event), event.pitch, start, end))
    ELSE Append(insts,
             [Instrument(programs[event.channel], IsDrum(event)) EXCEPT
                 !.events = <<Note(NewNoteVelocity(velocity, event), event.pitch, start, end)>>])

\* pitch_bend = 2*event.pitch/8192.0, kept as the number of 1/8192 semitones
PitchBend(event) == 2 * event.pitch

\* the pitch bend stored in every instrument
AddPitchBendAll(insts, programs, event, time) ==
    [i \in 1..Len(insts) |->
        [insts[i] EXCEPT !.pitch_changes = Append(@, <<time, PitchBend(event)>>)]]

\* the loop over self.instruments of a pitch wheel event
AddPitchBend(insts, programs, event, time) ==
    [i \in 1..Len(insts) |->
        IF Matches(insts[i], programs, event)
        THEN [insts[i] EXCEPT !.pitch_changes = Append(@, <<time, PitchBend(event)>>)]
        ELSE insts[i]]

IsNoteOn(event) == event.name = "Note On" /\ event.velocity > 0
IsNoteOff(event) ==
    event.name = "Note Off" \/ (event.name = "Note On" /\ event.velocity = 0)

(***************************************************************************)
(* Instrument.get_piano_roll.  A matrix is a function from the 128 rows    *)
(* to sequences of one length, the columns.  int() of a time in seconds    *)
(* times fs is ColumnOf.  A pitch bend is kept as bend*8192.  The numpy    *)
(* this Python 2 code runs on cuts a float given as a dimension or as a    *)
(* slice index to an integer, and clips a slice to the array.              *)
(***************************************************************************)
NumRows == 128
BendUnit == 8192
Rows == 0..(NumRows - 1)

Zeros(n) == [r \in Rows |-> [c \in 1..n |-> 0]]
Columns(m) == Len(m[0])

\* int(t*fs)
ColumnOf(t) == (t * fs) \div UnitsPerSecond

\* np.max([note.end for note in self.events])
EndTime(events) == SeqMax([i \in 1..Len(events) |-> events[i].end])

\* the columns of np.zeros((128, fs*end_time)): the float is cut to an integer
NativeColumns(events) == ColumnOf(EndTime(events))

\* one column per interval of the grid
IntegratedColumnsIntervals(times) == Len(times) - 1

\* the columns of the matrix returned for a times grid
IntegratedColumns(times) == Len(times)

\* piano_roll[note.pitch, int(note.start*fs):int(note.end*fs)] += note.velocity
AddNote1(m, note) ==
    [m EXCEPT ![note.pitch] =
        [c \in 1..Len(@) |->
            IF ColumnOf(note.start) < c /\ c <= ColumnOf(note.end)
            THEN @[c] + note.velocity ELSE @[c]]]

RECURSIVE AddNotes(_, _)
AddNotes(m, events) ==
    IF events = <<>> THEN m ELSE AddNotes(AddNote1(m, Head(events)), Tail(events))

\* zip(self.pitch_changes, self.pitch_changes[1:] + [(end_time, 0)])
BendSegments(pitch_changes, end_time) ==
    [i \in 1..Len(pitch_changes) |->
        [start |-> pitch_changes[i][1],
         bend  |-> pitch_changes[i][2],
         end   |-> IF i < Len(pitch_changes) THEN pitch_changes[i + 1][1] ELSE end_time]]

Abs(x) == IF x < 0 THEN -x ELSE x

\* the row of the matrix that row r of bent_roll is copied from (-1: none, it stays 0)
\* bent_roll[bend_int:] = piano_roll[:-bend_int], bent_roll[:bend_int] = piano_roll[-bend_int:]
ShiftedRow(r, bend) ==
    LET k == Abs(bend) \div BendUnit
    IN  IF bend >= 0
        THEN IF r - k >= 0 THEN r - k ELSE -1
        ELSE IF r + k <= NumRows - 1 THEN r + k ELSE -1

\* one pitch bend segment: the matrix after it, or an error
BendSegment(m, seg) ==
    LET a     == ColumnOf(seg.start)
        b     == ColumnOf(seg.end)
        cols  == Columns(m)
        ca    == Min(a, cols)
        cb    == Min(b, cols)
        k     == Abs(seg.bend) \div BendUnit
        frac  == Abs(seg.bend) % BendUnit
        shifted(r, c) == IF ShiftedRow(r, seg.bend) < 0 THEN 0 ELSE m[ShiftedRow(r, seg.bend)][c]
        \* the neighbour the row is blended with
        other == IF seg.bend >= 0 THEN -1 ELSE 1
        bent(r, c) ==
            IF r + other \in Rows
            THEN ((BendUnit - frac) * shifted(r, c) + frac * shifted(r + other, c)) \div BendUnit
            ELSE shifted(r, c)
    IN  IF Abs(seg.bend) < 1
        THEN [error |-> FALSE, roll |-> m]
        ELSE IF b - a < 0
        THEN \* np.zeros with a negative dimension
             [error |-> TRUE, roll |-> m]
        ELSE IF k # 0 /\ cb - ca # b - a
        THEN \* the slice of the matrix is narrower than bent_roll
             [error |-> TRUE, roll |-> m]
        ELSE [error |-> FALSE,
              roll  |-> [r \in Rows |-> [c \in 1..cols |->
                            IF ca < c /\ c <= cb THEN bent(r, c) ELSE m[r][c]]]]

RECURSIVE BendLoop(_, _)
BendLoop(res, segs) ==
    IF segs = <<>> \/ res.error THEN res
    ELSE BendLoop(BendSegment(res.roll, Head(segs)), Tail(segs))

\* np.mean(piano_roll[:, start:end], axis=1) stored into an int16 array;
\* the mean of no column is nan, whose cast to int16 is not defined
MeanColumn(m, r, start, end, nan) ==
    LET cols == Columns(m)
        cs   == Min(ColumnOf(start), cols)
        ce   == Min(ColumnOf(end), cols)
        RECURSIVE Sum(_)
        Sum(c) == IF c > ce THEN 0 ELSE m[r][c] + Sum(c + 1)
    IN  IF ce > cs THEN Sum(cs + 1) \div (ce - cs) ELSE nan

Integrate(m, times, nan) ==
    [r \in Rows |-> [n \in 1..IntegratedColumns(times) |->
        IF n < Len(times) THEN MeanColumn(m, r, times[n], times[n + 1], nan) ELSE 0]]

\* times is None, or an array
NoTimes == [given |-> FALSE, grid |-> <<>>]
Times(grid) == [given |-> TRUE, grid |-> grid]

Returned(m) == [status |-> "returned", roll |-> m]
Raised == [status |-> "raised", roll |-> <<>>]

GetPianoRollOf(self, times, nan) ==
    IF self.events = <<>> THEN Returned(Zeros(0))
    ELSE LET end_time == EndTime(self.events)
             piano_roll == Zeros(NativeColumns(self.events))
         IN  IF self.is_drum
             THEN IF ~times.given THEN Returned(piano_roll)
                  ELSE Returned(Zeros(Len(times.grid)))
             ELSE LET bent == BendLoop([error |-> FALSE, roll |-> AddNotes(piano_roll, self.events)],
                                       BendSegments(self.pitch_changes, end_time))
                  IN  IF bent.error THEN Raised
                      ELSE IF ~times.given THEN Returned(bent.roll)
                      ELSE Returned(Integrate(bent.roll, times.grid, nan))

NotCalled == [status |-> "none", roll |-> <<>>]

\* no query made yet
NoQuery == [op |-> "none", status |-> "none", value |-> <<>>]

NoCall ==
    /\ roll_self = Instrument(0, FALSE)
    /\ roll_times = NoTimes
    /\ roll_result = NotCalled
    /\ query = NoQuery

(***************************************************************************)
(* The steps of PrettyMIDI.__init__                                        *)
(***************************************************************************)
\* self._get_tempo_changes(midi_data)
GetTempoChanges ==
    /\ UNCHANGED <<roll_vars, query_vars>>
    /\ pc = "tempo"
    /\ tick_scales' = GetTempoChangesOf(tracks, resolution)
    /\ pc' = "ticks"
    /\ UNCHANGED <<resolution, tracks, tick_to_time, warned, instruments,
                   track_idx, event_idx, last_note_on, current_instrument>>

\* max_tick = max(...) + 1; self._update_tick_to_time(max_tick).
\* max() of a track without events raises ValueError.
UpdateTickToTime ==
    /\ UNCHANGED <<roll_vars, query_vars>>
    /\ pc = "ticks"
    /\ IF \E t \in 1..Len(tracks) : tracks[t] = <<>>
       THEN /\ pc' = "error"
            /\ UNCHANGED tick_to_time
       ELSE /\ tick_to_time' = UpdateTickToTimeOf(tick_scales, MaxTickOf(tracks))
            /\ pc' = "warn"
    /\ UNCHANGED <<resolution, tracks, tick_scales, warned, instruments,
                   track_idx, event_idx, last_note_on, current_instrument>>

\* sum of the 'Set Tempo' events of midi_data[1:]
TempoEventsOffTrack0(midi_tracks) ==
    Cardinality({te \in UNION {{<<t, e>> : e \in 1..Len(midi_tracks[t])} : t \in 2..Len(midi_tracks)} :
                    midi_tracks[te[1]][te[2]].name = "Set Tempo"})

\* the check for tempo changes on other tracks, then the entry of _get_instruments
CheckTempoTracks ==
    /\ UNCHANGED <<roll_vars, query_vars>>
    /\ pc = "warn"
    /\ warned' = (TempoEventsOffTrack0(tracks) # 0)
    /\ instruments' = <<>>
    /\ track_idx' = 1
    /\ event_idx' = 0
    /\ pc' = "instruments"
    /\ UNCHANGED <<resolution, tracks, tick_scales, tick_to_time,
                   last_note_on, current_instrument>>

AtTrackHead == pc = "instruments" /\ event_idx = 0
AtEvent == pc = "instruments" /\ event_idx > 0
CurrentTrack == tracks[track_idx]
CurrentEvent == tracks[track_idx][event_idx]

\* the next track entered with the tables as the last track left them
StartTrackNoReset ==
    /\ UNCHANGED <<roll_vars, query_vars>>
    /\ AtTrackHead
    /\ track_idx <= Len(tracks)
    /\ event_idx' = 1
    /\ UNCHANGED <<resolution, tracks, pc, tick_scales, tick_to_time, warned,
                   instruments, track_idx, last_note_on, current_instrument>>

\* for track in midi_data: last_note_on = {}; current_instrument = zeros
StartTrack ==
    /\ UNCHANGED <<roll_vars, query_vars>>
    /\ AtTrackHead
    /\ track_idx <= Len(tracks)
    /\ last_note_on' = <<>>
    /\ current_instrument' = ZeroPrograms
    /\ event_idx' = 1
    /\ UNCHANGED <<resolution, tracks, pc, tick_scales, tick_to_time, warned,
                   instruments, track_idx>>

\* the loop over the tracks is exhausted: __init__ returns
FinishInstruments ==
    /\ UNCHANGED <<roll_vars, query_vars>>
    /\ AtTrackHead
    /\ track_idx > Len(tracks)
    /\ pc' = "done"
    /\ UNCHANGED <<resolution, tracks, tick_scales, tick_to_time, warned, instruments,
                   track_idx, event_idx, last_note_on, current_instrument>>

\* for event in track: on to the next event, or to the next track
Advance ==
    IF event_idx < Len(CurrentTrack)
    THEN event_idx' = event_idx + 1 /\ track_idx' = track_idx
    ELSE event_idx' = 0 /\ track_idx' = track_idx + 1

EventStep(cond) ==
    /\ AtEvent
    /\ cond
    /\ Advance
    /\ UNCHANGED <<resolution, tracks, pc, tick_scales, tick_to_time, warned>>
    /\ UNCHANGED <<roll_vars, query_vars>>

HandleProgramChange ==
    /\ EventStep(CurrentEvent.name = "Program Change")
    /\ current_instrument' =
           [current_instrument EXCEPT ![CurrentEvent.channel] = CurrentEvent.data]
    /\ UNCHANGED <<instruments, last_note_on>>

HandleNoteOn ==
    /\ EventStep(IsNoteOn(CurrentEvent))
    /\ last_note_on' = DictSet(last_note_on, NoteKey(current_instrument, CurrentEvent),
                               <<TimeOf(CurrentEvent.tick), CurrentEvent.velocity>>)
    /\ UNCHANGED <<instruments, current_instrument>>

HandleNoteOff ==
    /\ EventStep(IsNoteOff(CurrentEvent))
    /\ LET key == NoteOffKey(current_instrument, CurrentEvent)
       IN  IF key \in DOMAIN last_note_on
           THEN /\ instruments' = AddNote(instruments, current_instrument, CurrentEvent,
                                          last_note_on[key][1], last_note_on[key][2],
                                          TimeOf(CurrentEvent.tick))
                /\ last_note_on' = DictDel(last_note_on, key)
           ELSE UNCHANGED <<instruments, last_note_on>>
    /\ UNCHANGED current_instrument

HandlePitchWheel ==
    /\ EventStep(CurrentEvent.name = "Pitch Wheel")
    /\ instruments' = AddPitchBend(instruments, current_instrument, CurrentEvent,
                                   TimeOf(CurrentEvent.tick))
    /\ UNCHANGED <<last_note_on, current_instrument>>

\* any other event (a tempo change, an end of track, ...) matches no branch
HandleOtherEvent ==
    /\ EventStep(CurrentEvent.name \notin {"Program Change", "Note On", "Note Off", "Pitch Wheel"})
    /\ UNCHANGED <<instruments, last_note_on, current_instrument>>

Next ==
    \/ GetTempoChanges
    \/ UpdateTickToTime
    \/ CheckTempoTracks
    \/ StartTrack
    \/ HandleProgramChange
    \/ HandleNoteOn
    \/ HandleNoteOff
    \/ HandlePitchWheel
    \/ HandleOtherEvent
    \/ FinishInstruments

(***************************************************************************)
(* Inputs.  A track is a tick-ordered sequence of events.                  *)
(***************************************************************************)
SeqsUpTo(S, n) == UNION {[1..k -> S] : k \in 0..n}

TickOrdered(track) == \A i \in 1..(Len(track) - 1) : track[i].tick <= track[i + 1].tick

\* the events of s, in order, step ticks apart from tick 0 on
Stamp(s, step) == [i \in 1..Len(s) |-> [s[i] EXCEPT !.tick = (i - 1) * step]]

NoteAlphabet ==
    {NoteOnEvent(0, 0, 60, 100), NoteOnEvent(0, 1, 60, 100),
     NoteOnEvent(0, DrumChannel, 60, 100),
     NoteOffEvent(0, 0, 60, 64), NoteOffEvent(0, 1, 60, 64),
     NoteOffEvent(0, DrumChannel, 60, 64), NoteOffEvent(0, 0, 61, 64),
     NoteOnEvent(0, 0, 60, 0),
     ProgramChange(0, 0, 1), ProgramChange(0, DrumChannel, 1),
     PitchWheel(0, 0, 2048)}

SmallAlphabet ==
    {NoteOnEvent(0, 0, 60, 100), NoteOffEvent(0, 0, 60, 64),
     NoteOnEvent(0, 1, 60, 100), NoteOffEvent(0, 1, 60, 64),
     ProgramChange(0, 0, 1), SetTempo(0, 60)}

\* a second track that holds every kind of event, with a note from tick a to tick b
CoverTrack(a, b) ==
    <<ProgramChange(0, DrumChannel, 1), NoteOnEvent(a, DrumChannel, 61, 100),
      NoteOnEvent(b, DrumChannel, 61, 0), PitchWheel(b, DrumChannel, -2048),
      EndOfTrack(MaxTick + 1)>>

NoteInputs ==
    {<<Stamp(s, step)>> : s \in SeqsUpTo(NoteAlphabet, MaxLen), step \in 0..MaxStep}
    \cup
    {<<Stamp(st[1], 1), Stamp(st[2], 1)>> :
        st \in SeqsUpTo(SmallAlphabet, MaxLen - 1) \X SeqsUpTo(SmallAlphabet, MaxLen - 1)}
    \cup
    {<<Stamp(s, 1), CoverTrack(0, 1)>> : s \in SeqsUpTo(SmallAlphabet, MaxLen - 1)}
    \cup
    {<<Stamp(<<ProgramChange(0, c[1], 1), NoteOnEvent(0, c[2], 60, 100),
               ProgramChange(0, c[3], 1), NoteOffEvent(0, c[4], 60, 64)>>, 1)>> :
        c \in {0, 1} \X {0, 1} \X {0, 1} \X {0, 1}}

BPMs == {60, 120, 240}
Resolutions == {32, 64}

TempoAlphabet == {SetTempo(t, b) : t \in 0..MaxTick, b \in BPMs}

\* the tracks after track 0: none, one without events, one with a tempo change, a full one
TempoTails ==
    { <<>>, << <<>> >>, << <<SetTempo(1, 60), EndOfTrack(MaxTick + 1)>> >> }
    \cup {<<CoverTrack(ab[1], ab[2])>> : ab \in {x \in (0..MaxTick) \X (0..MaxTick) : x[1] <= x[2]}}

TempoInputs ==
    {<< <<NoteOnEvent(0, 0, 60, 100)>> \o s \o <<NoteOffEvent(MaxTick, 0, 60, 64)>> >> \o tail :
        s \in {q \in SeqsUpTo(TempoAlphabet, MaxTempoEvents) : TickOrdered(q)},
        tail \in TempoTails}

InitState ==
    /\ pc = "tempo"
    /\ tick_scales = <<>>
    /\ tick_to_time = <<>>
    /\ warned = FALSE
    /\ instruments = <<>>
    /\ track_idx = 0
    /\ event_idx = 0
    /\ last_note_on = <<>>
    /\ current_instrument = ZeroPrograms
    /\ NoCall

Init ==
    /\ resolution = 64
    /\ tracks \in NoteInputs
    /\ InitState

InitTempo ==
    /\ resolution \in Resolutions
    /\ tracks \in TempoInputs
    /\ InitState

Spec == Init /\ [][Next]_vars

SpecTempo == InitTempo /\ [][Next]_vars

(***************************************************************************)
(* Calls of Instrument.get_piano_roll on instruments given directly        *)
(***************************************************************************)
MaxNotes == 2
MaxBends == 1

\* notes: two pitches, and the spans 0..3, 3..3 and 2..6 (in 1/256 s)
RollSpans == {<<0, 3>>, <<3, 3>>, <<2, 6>>}
RollPitches == {60, NumRows - 1}
RollNotes == {Note(100, p, t[1], t[2]) : p \in RollPitches, t \in RollSpans}

\* pitch bends: none, half a semitone up, one and a half down; at the start or after the end
RollBendTimes == {0, 8}
RollBends == {0, 4096, -(BendUnit + 4096)}

\* what the cast of nan to int16 may give
NaNCasts == {0, -32768}

RollInstruments ==
    {[program |-> 0, is_drum |-> d, events |-> ev, pitch_changes |-> pb] :
        d \in BOOLEAN,
        ev \in SeqsUpTo(RollNotes, MaxNotes),
        pb \in SeqsUpTo(RollBendTimes \X RollBends, MaxBends)}

TimesArgs == {NoTimes, Times(<<0>>), Times(<<0, 3>>), Times(<<0, 3, 9>>), Times(<<3, 3, 0, 6>>)}

\* an Instrument and the argument of the call to come
InitRoll ==
    /\ resolution = 64
    /\ tracks = <<>>
    /\ pc = "query"
    /\ tick_scales = <<>>
    /\ tick_to_time = <<>>
    /\ warned = FALSE
    /\ instruments = <<>>
    /\ track_idx = 0
    /\ event_idx = 0
    /\ last_note_on = <<>>
    /\ current_instrument = ZeroPrograms
    /\ roll_self \in RollInstruments
    /\ roll_times \in TimesArgs
    /\ roll_result = NotCalled
    /\ query = NoQuery

\* the call roll_self.get_piano_roll(roll_times)
CallGetPianoRoll ==
    /\ pc = "query"
    /\ \E nan \in NaNCasts : roll_result' = GetPianoRollOf(roll_self, roll_times, nan)
    /\ pc' = "returned"
    /\ UNCHANGED <<resolution, tracks, tick_scales, tick_to_time, warned, instruments,
                   track_idx, event_idx, last_note_on, current_instrument,
                   roll_self, roll_times, query>>

NextRoll == CallGetPianoRoll

SpecRoll == InitRoll /\ [][NextRoll]_vars

(***************************************************************************)
(* The queries of a built PrettyMIDI: get_onsets, get_piano_roll,          *)
(* get_chroma, synthesize, and get_piano_roll of one of its instruments    *)
(***************************************************************************)
QueryReturned(op, value) == [op |-> op, status |-> "returned", value |-> value]
QueryRaised(op) == [op |-> op, status |-> "raised", value |-> <<>>]

\* Instrument.get_onsets: np.sort of the starts of the notes
InstrumentOnsets(self) ==
    SortSeq([i \in 1..Len(self.events) |-> self.events[i].start], LAMBDA a, b : a < b)

\* PrettyMIDI.get_onsets: np.append over the instruments, then np.sort
RECURSIVE AppendOnsets(_, _)
AppendOnsets(onsets, insts) ==
    IF insts = <<>> THEN onsets
    ELSE AppendOnsets(onsets \o InstrumentOnsets(Head(insts)), Tail(insts))

GetOnsetsOf(insts) == SortSeq(AppendOnsets(<<>>, insts), LAMBDA a, b : a < b)

\* piano_rolls = [i.get_piano_roll(times=times) for i in self.instruments]
PianoRolls(insts, times, nans) ==
    [i \in 1..Len(insts) |-> GetPianoRollOf(insts[i], times, nans[i])]

\* piano_roll[:, :roll.shape[1]] += roll, for every roll
SumRolls(rolls, cols) ==
    LET RECURSIVE Cell(_, _, _)
        Cell(i, r, c) ==
            IF i > Len(rolls) THEN 0
            ELSE (IF c <= Columns(rolls[i].roll) THEN rolls[i].roll[r][c] ELSE 0) + Cell(i + 1, r, c)
    IN  [r \in Rows |-> [c \in 1..cols |-> Cell(1, r, c)]]

\* PrettyMIDI.get_piano_roll; np.max of an empty list raises ValueError
ContainerPianoRollOf(insts, times, nans) ==
    LET rolls == PianoRolls(insts, times, nans)
    IN  IF \E i \in 1..Len(rolls) : rolls[i].status = "raised" THEN Raised
        ELSE IF rolls = <<>> THEN Raised
        ELSE Returned(SumRolls(rolls, SeqMax([i \in 1..Len(rolls) |-> Columns(rolls[i].roll)])))

NumChroma == 12

\* chroma_matrix[note, :] = np.sum(piano_roll[note::12], axis=0)
FoldOctaves(m) ==
    LET RECURSIVE Fold(_, _)
        Fold(r, c) == IF r > NumRows - 1 THEN 0 ELSE m[r][c] + Fold(r + NumChroma, c)
    IN  [note \in 0..(NumChroma - 1) |-> [c \in 1..Columns(m) |-> Fold(note, c)]]

\* PrettyMIDI.get_chroma
GetChromaOf(insts, times, nans) ==
    LET piano_roll == ContainerPianoRollOf(insts, times, nans)
    IN  IF piano_roll.status = "raised" THEN Raised
        ELSE Returned(FoldOctaves(piano_roll.roll))

\* the default sampling rate of synthesize
SynthFs == 44100

\* int(fs*t)
SampleOf(t) == (SynthFs * t) \div UnitsPerSecond

\* Instrument.synthesize.  The samples are not computed: a waveform is its
\* length and whether any note wrote samples into it.  A drum instrument
\* returns the zeros it allocated.
WaveformOf(self) ==
    [length   |-> SampleOf(EndTime(self.events) + UnitsPerSecond),
     sounding |-> /\ ~self.is_drum
                  /\ \E i \in 1..Len(self.events) :
                        SampleOf(self.events[i].end) - SampleOf(self.events[i].start) > 0]

\* np.abs(synthesized).max(): 0 when no waveform holds a sample; otherwise it
\* is given by the wave function, the argument of the call (peak)
PeakOf(waveforms, peak) ==
    IF \E i \in 1..Len(waveforms) : waveforms[i].sounding THEN peak ELSE 0

\* the peaks a wave function can give to a mix that holds samples
Peaks == {0, 1}

\* PrettyMIDI.synthesize, up to the division: the length of the mix and the divisor
SynthesizeOf(insts, peak) ==
    LET waveforms == [i \in 1..Len(insts) |-> WaveformOf(insts[i])]
    IN  IF waveforms = <<>> THEN QueryRaised("synthesize")
        ELSE QueryReturned("synthesize",
                 [length  |-> SeqMax([i \in 1..Len(waveforms) |-> waveforms[i].length]),
                  divisor |-> PeakOf(waveforms, peak)])

\* the times arguments of the queries: none, or a grid of one interval
QueryTimes == {NoTimes, Times(<<0, 8>>)}

\* a query leaves the container as it is
QueryStep ==
    /\ pc = "done"
    /\ pc' = "queried"
    /\ UNCHANGED <<resolution, tracks, tick_scales, tick_to_time, warned, instruments,
                   track_idx, event_idx, last_note_on, current_instrument>>

AsQuery(op, result) == [op |-> op, status |-> result.status, value |-> result.roll]

PrettyMIDIGetOnsets ==
    /\ QueryStep
    /\ query' = QueryReturned("get_onsets", GetOnsetsOf(instruments))
    /\ UNCHANGED roll_vars

PrettyMIDIGetPianoRoll ==
    /\ QueryStep
    /\ \E times \in QueryTimes : \E nans \in [1..Len(instruments) -> NaNCasts] :
          /\ roll_times' = times
          /\ query' = AsQuery("get_piano_roll", ContainerPianoRollOf(instruments, times, nans))
    /\ UNCHANGED <<roll_self, roll_result>>

PrettyMIDIGetChroma ==
    /\ QueryStep
    /\ \E times \in QueryTimes : \E nans \in [1..Len(instruments) -> NaNCasts] :
          /\ roll_times' = times
          /\ query' = AsQuery("get_chroma", GetChromaOf(instruments, times, nans))
    /\ UNCHANGED <<roll_self, roll_result>>

PrettyMIDISynthesize ==
    /\ QueryStep
    /\ \E peak \in Peaks : query' = SynthesizeOf(instruments, peak)
    /\ UNCHANGED roll_vars

\* get_piano_roll of one instrument of the container
InstrumentGetPianoRoll ==
    /\ QueryStep
    /\ \E i \in 1..Len(instruments) : \E times \in QueryTimes : \E nan \in NaNCasts :
          /\ roll_self' = instruments[i]
          /\ roll_times' = times
          /\ roll_result' = GetPianoRollOf(instruments[i], times, nan)
          /\ query' = [op |-> "Instrument.get_piano_roll", status |-> roll_result'.status,
                       value |-> <<>>]

NextQuery ==
    \/ Next
    \/ PrettyMIDIGetOnsets
    \/ PrettyMIDIGetPianoRoll
    \/ PrettyMIDIGetChroma
    \/ PrettyMIDISynthesize
    \/ InstrumentGetPianoRoll

\* the events of the files queried: notes of a pitched and of the drum channel,
\* a change of the drum channel's program
QueryAlphabet ==
    {NoteOnEvent(0, 0, 60, 100), NoteOffEvent(0, 0, 60, 64),
     NoteOnEvent(0, DrumChannel, 60, 100), NoteOffEvent(0, DrumChannel, 60, 64),
     ProgramChange(0, DrumChannel, 1)}

\* the ticks between two events of a queried file
QuerySpacing == 2

\* the tracks after track 0: none, one without events, one with a pitch bend,
\* one with a second pitch bend after the last event of track 0
QueryTails ==
    { <<>>, << <<>> >>, << <<PitchWheel(0, 0, 2048), EndOfTrack(QuerySpacing)>> >>,
      << <<PitchWheel(0, 0, 2048), PitchWheel(MaxLen * QuerySpacing, 0, 2048)>> >> }

QueryInputs ==
    {<<Stamp(s, QuerySpacing)>> \o tail : s \in SeqsUpTo(QueryAlphabet, MaxLen), tail \in QueryTails}

InitQuery ==
    /\ resolution = 64
    /\ tracks \in QueryInputs
    /\ InitState

SpecQuery == InitQuery /\ [][NextQuery]_vars

(***************************************************************************)
(* Properties                                                              *)
(***************************************************************************)
RECURSIVE SumLens(_)
SumLens(insts) == IF insts = <<>> THEN 0 ELSE Len(Head(insts).events) + SumLens(Tail(insts))

\* the number of Notes held by the instruments
TotalNotes == SumLens(instruments)

\* the notes and pitch bends instrument i held before the step (none if it is new)
OldEvents(i) == IF i <= Len(instruments) THEN instruments[i].events ELSE <<>>
OldBends(i) == IF i <= Len(instruments) THEN instruments[i].pitch_changes ELSE <<>>

\* the step handles a note-off whose key is pending / is not pending
MatchedOff ==
    /\ AtEvent
    /\ IsNoteOff(CurrentEvent)
    /\ NoteKey(current_instrument, CurrentEvent) \in DOMAIN last_note_on
SpuriousOff ==
    /\ AtEvent
    /\ IsNoteOff(CurrentEvent)
    /\ NoteKey(current_instrument, CurrentEvent) \notin DOMAIN last_note_on

\* the channel -> program table after the first n events of a track
RECURSIVE ProgramsAfter(_, _)
ProgramsAfter(track, n) ==
    IF n = 0 THEN ZeroPrograms
    ELSE LET before == ProgramsAfter(track, n - 1)
         IN  IF track[n].name = "Program Change"
             THEN [before EXCEPT ![track[n].channel] = track[n].data]
             ELSE before

\* the key of event n of a track, by the programs current when it is read
KeyAt(track, n) == NoteKey(ProgramsAfter(track, n - 1), track[n])

\* the events read so far of the track being read (or just read)
Processed ==
    IF pc \notin {"instruments", "done"} THEN <<>>
    ELSE IF event_idx > 0 THEN SubSeq(CurrentTrack, 1, event_idx - 1)
    ELSE IF track_idx > 1 /\ last_note_on # <<>> THEN tracks[track_idx - 1]
    ELSE <<>>

NotesOf(insts) == UNION {{insts[i].events[j] : j \in 1..Len(insts[i].events)} : i \in 1..Len(insts)}

Built == pc \in {"warn", "instruments", "done"}

\* C1: every Note appended by a matched note-off, to an existing or to a new
\* Instrument, has the velocity recorded in the pending table for its key
C1_NoteVelocityIsOnsetVelocity ==
    [][MatchedOff =>
        \A i \in 1..Len(instruments') :
            \A j \in (Len(OldEvents(i)) + 1)..Len(instruments'[i].events) :
                instruments'[i].events[j].velocity =
                    last_note_on[NoteKey(current_instrument, CurrentEvent)][2]]_vars

\* the three events at hand: a Note-On, a Program-Change of its channel to
\* another program, and the event being handled, a note-off of its channel and pitch
C2Case ==
    /\ AtEvent
    /\ event_idx >= 3
    /\ LET on  == CurrentTrack[event_idx - 2]
           chg == CurrentTrack[event_idx - 1]
           off == CurrentEvent
       IN  /\ IsNoteOn(on)
           /\ chg.name = "Program Change" /\ chg.channel = on.channel
           /\ chg.data # ProgramsAfter(CurrentTrack, event_idx - 3)[on.channel]
           /\ IsNoteOff(off) /\ off.channel = on.channel /\ off.pitch = on.pitch

\* C2: Note-On on channel c, then Program-Change on c to another program, then
\* Note-Off of the same pitch on c: the note-off emits one Note, into the
\* Instrument of the program that was current at the Note-On
C2_ProgramChangeKeepsPendingNote ==
    [][C2Case =>
        /\ SumLens(instruments') = TotalNotes + 1
        /\ \E i \in 1..Len(instruments') :
              /\ instruments'[i].program =
                     ProgramsAfter(CurrentTrack, event_idx - 3)[CurrentEvent.channel]
              /\ instruments'[i].is_drum = IsDrum(CurrentEvent)
              /\ Len(instruments'[i].events) = Len(OldEvents(i)) + 1]_vars

\* no two Instruments of the list have the same program and drum flag
NoDuplicateInstruments ==
    \A i, j \in 1..Len(instruments) :
        i # j => <<instruments[i].program, instruments[i].is_drum>>
                 # <<instruments[j].program, instruments[j].is_drum>>

\* C3: no two Instruments share (program, is_drum); a matched note-off appends
\* exactly one Note, to the one Instrument of the event's program and drum flag
C3_InstrumentsUnique ==
    [][/\ NoDuplicateInstruments'
       /\ MatchedOff =>
            /\ SumLens(instruments') = TotalNotes + 1
            /\ \E i \in 1..Len(instruments') :
                  /\ Matches(instruments'[i], current_instrument, CurrentEvent)
                  /\ Len(instruments'[i].events) = Len(OldEvents(i)) + 1]_vars

\* notes of two channels, read in two tracks, in one Instrument
C3_Witness ==
    /\ pc = "done"
    /\ Len(tracks) = 2
    /\ Len(instruments) = 1
    /\ Len(instruments[1].events) = 2
    /\ tracks[1][2].channel # tracks[2][2].channel

\* C4: every Note of every Instrument has end >= start
C4_EndNotBeforeStart ==
    \A n \in NotesOf(instruments) : n.end >= n.start

\* a note that starts after tick 0 and spans a change of tempo
C4_Witness ==
    /\ pc = "done"
    /\ \E n \in NotesOf(instruments) :
          /\ n.start > 0
          /\ \E i \in 2..Len(tick_scales) :
                n.start < TimeOf(tick_scales[i][1]) /\ TimeOf(tick_scales[i][1]) < n.end

\* every pending key comes from a Note-On of the track read so far
PendingFromOnset ==
    \A key \in DOMAIN last_note_on :
        \E i \in 1..Len(Processed) :
            /\ IsNoteOn(Processed[i])
            /\ KeyAt(Processed, i) = key
            /\ last_note_on[key] = <<TimeOf(Processed[i].tick), Processed[i].velocity>>
            /\ \A j \in (i + 1)..Len(Processed) :
                  ~(IsNoteOff(Processed[j]) /\ KeyAt(Processed, j) = key)

\* C5: a Note appears only by a note-off whose key is pending, which consumes
\* the key; a pending key was set by an earlier Note-On (velocity > 0) of the
\* same track with that key that no later note-off of the key has followed; a
\* note-off whose key is not pending changes nothing
C5_NotesOnlyFromMatchedOff ==
    [][/\ PendingFromOnset'
       /\ (SumLens(instruments') # TotalNotes \/ Len(instruments') # Len(instruments)) =>
            /\ MatchedOff
            /\ SumLens(instruments') = TotalNotes + 1
            /\ NoteKey(current_instrument, CurrentEvent) \notin DOMAIN last_note_on'
       /\ SpuriousOff => UNCHANGED <<instruments, last_note_on, current_instrument>>]_vars

\* Note-On, Note-Off, Note-Off: the second note-off found nothing pending
C5_Witness ==
    /\ pc = "done"
    /\ Len(tracks) = 1 /\ Len(tracks[1]) = 3
    /\ IsNoteOn(tracks[1][1]) /\ IsNoteOff(tracks[1][2]) /\ IsNoteOff(tracks[1][3])
    /\ KeyAt(tracks[1], 1) = KeyAt(tracks[1], 2) /\ KeyAt(tracks[1], 2) = KeyAt(tracks[1], 3)
    /\ TotalNotes = 1

\* C6: time_of(0) = 0 and time_of is non-decreasing over the ticks of the lookup
C6_LookupMonotone ==
    Built =>
        /\ tick_to_time[1] = 0
        /\ \A i \in 1..(Len(tick_to_time) - 1) : tick_to_time[i] <= tick_to_time[i + 1]

\* a lookup of three tempi, two of them set at one tick
C6_Witness ==
    /\ Built
    /\ Len(tick_scales) = 3
    /\ tick_scales[2][1] = tick_scales[3][1]
    /\ tick_to_time[Len(tick_to_time)] > 0

\* C7: no two consecutive breakpoints have the same seconds_per_tick
C7_NoRepeatedScale ==
    pc # "tempo" =>
        \A i \in 1..(Len(tick_scales) - 1) : tick_scales[i][2] # tick_scales[i + 1][2]

TempoEventsOf(track) == SelectSeq(track, LAMBDA e : e.name = "Set Tempo")

\* two tempo events after tick 0 with one tempo: the second appended nothing
C7_Witness ==
    /\ pc = "done"
    /\ Len(TempoEventsOf(tracks[1])) = 2
    /\ TempoEventsOf(tracks[1])[1].tick > 0
    /\ TempoEventsOf(tracks[1])[1].bpm = TempoEventsOf(tracks[1])[2].bpm
    /\ Len(tick_scales) = 2

\* C8: tick_scales is strictly increasing in tick and starts at tick 0
C8_BreakpointsStrictlyIncreasing ==
    pc # "tempo" =>
        /\ tick_scales[1][1] = 0
        /\ \A i \in 1..(Len(tick_scales) - 1) : tick_scales[i][1] < tick_scales[i + 1][1]

\* the tracks with the tempo events of every track but the first removed
WithoutTempoOffTrack0(midi_tracks) ==
    [t \in 1..Len(midi_tracks) |->
        IF t = 1 THEN midi_tracks[t]
        ELSE SelectSeq(midi_tracks[t], LAMBDA e : e.name # "Set Tempo")]

HasTempoOffTrack0 ==
    \E t \in 2..Len(tracks) : \E e \in 1..Len(tracks[t]) : tracks[t][e].name = "Set Tempo"

\* C9: tempo events off track 0 change neither breakpoints nor lookup, are
\* warned about exactly when there is one, and do not stop the construction
C9_TempoOffTrack0Ignored ==
    /\ pc # "tempo" =>
          tick_scales = GetTempoChangesOf(WithoutTempoOffTrack0(tracks), resolution)
    /\ Built =>
          tick_to_time = UpdateTickToTimeOf(
              GetTempoChangesOf(WithoutTempoOffTrack0(tracks), resolution), MaxTickOf(tracks))
    /\ pc \in {"instruments", "done"} => (warned <=> HasTempoOffTrack0)
    /\ warned => pc \in {"instruments", "done"}

\* a file with a tempo change on its second track, built to the end, with a Note
C9_Witness ==
    /\ pc = "done"
    /\ warned
    /\ HasTempoOffTrack0
    /\ TotalNotes > 0

\* a call with a times grid that returned a matrix
GridCall ==
    /\ roll_result.status = "returned"
    /\ roll_times.given
    /\ Len(roll_times.grid) >= 1
    /\ roll_self.events # <<>>

\* C10 as stated: a times grid of n entries gives n - 1 columns
C10_OneColumnFewer ==
    GridCall => Columns(roll_result.roll) = Len(roll_times.grid) - 1

\* C10, amended: a times grid of n entries gives n columns, one per interval
\* between consecutive grid entries and a last one of zeros
C10_OneColumnPerEntry ==
    GridCall =>
        /\ Columns(roll_result.roll) = Len(roll_times.grid)
        /\ \A r \in Rows : roll_result.roll[r][Len(roll_times.grid)] = 0

\* a grid of three entries on an instrument that is no drum: two columns with a
\* note in them, then the column of zeros
C10_Witness ==
    /\ GridCall
    /\ ~roll_self.is_drum
    /\ Len(roll_times.grid) = 3
    /\ roll_result.roll[60][1] > 0
    /\ roll_result.roll[60][2] > 0

\* the instruments that gained a Note in the step
Grown == {i \in 1..Len(instruments') : Len(instruments'[i].events) > Len(OldEvents(i))}

AllZeros(m) == \A r \in DOMAIN m : \A c \in 1..Len(m[r]) : m[r][c] = 0

\* C11: a note completed on channel 9 goes to an is_drum Instrument whatever the
\* program of the channel, a note completed on another channel to one that is
\* not is_drum; get_piano_roll of an is_drum Instrument returns all zeros, with
\* or without a times grid
C11_DrumFlagFollowsChannel ==
    [][/\ MatchedOff =>
            /\ Grown # {}
            /\ \A i \in Grown :
                  instruments'[i].is_drum = (CurrentEvent.channel = DrumChannel)
       /\ (roll_result'.status # "none" /\ roll_self'.is_drum) =>
            /\ roll_result'.status = "returned"
            /\ AllZeros(roll_result'.roll)]_vars

\* the drum channel was set to program 1 before its note: the Instrument
\* (1, is_drum) holds the note, and its piano roll over a grid has columns
C11_Witness ==
    /\ pc = "queried"
    /\ roll_self \in {instruments[i] : i \in 1..Len(instruments)}
    /\ roll_self.is_drum /\ roll_self.program = 1
    /\ roll_self.events # <<>>
    /\ roll_times.given
    /\ roll_result.status = "returned"
    /\ Columns(roll_result.roll) > 0

\* C12: for a file of one track or more, each track tick-ordered and possibly
\* without events, the construction never ends in an error, and get_onsets,
\* get_piano_roll and get_chroma of the built container return a result, also
\* when it holds no instrument
C12_NoFatalError ==
    /\ pc # "error"
    /\ query.op \in {"get_onsets", "get_piano_roll", "get_chroma"} => query.status = "returned"

\* C13: synthesize on a container whose instruments are all drum instruments
\* divides the mix by a peak amplitude that is not 0
C13_DivisorNotZero ==
    (/\ query.op = "synthesize"
     /\ query.status = "returned"
     /\ \A i \in 1..Len(instruments) : instruments[i].is_drum) =>
        query.value.divisor # 0

\* the seconds_per_tick of the last breakpoint in the sequence whose tick is <= t
ScaleAt(scales, t) ==
    LET k == CHOOSE n \in 1..Len(scales) :
                 /\ scales[n][1] <= t
                 /\ \A j \in (n + 1)..Len(scales) : scales[j][1] > t
    IN  scales[k][2]

\* C14: time_of(0) = 0, and for every tick i >= 1 of the lookup
\* time_of(i) - time_of(i-1) is the seconds_per_tick of the last breakpoint
\* whose tick is <= i-1
C14_LookupPiecewiseLinear ==
    Built =>
        /\ tick_to_time[1] = 0
        /\ \A i \in 1..(Len(tick_to_time) - 1) :
              tick_to_time[i + 1] - tick_to_time[i] = ScaleAt(tick_scales, i - 1)

\* three breakpoints at three ticks, and ticks after the last of them
C14_Witness ==
    /\ pc = "done"
    /\ Len(tick_scales) = 3
    /\ tick_scales[1][1] < tick_scales[2][1] /\ tick_scales[2][1] < tick_scales[3][1]
    /\ tick_scales[3][1] + 2 <= Len(tick_to_time)
    /\ tick_to_time[Len(tick_to_time)] > 0

\* the ticks of all events of all tracks, and the greatest of them
AllTicks == UNION {{tracks[t][e].tick : e \in 1..Len(tracks[t])} : t \in 1..Len(tracks)}
ObservedMaxTick == CHOOSE m \in AllTicks : \A t \in AllTicks : t <= m

\* the ticks that reconstruction and get_tempii look up
LookedUpTicks ==
    UNION {{tracks[t][e].tick : e \in {x \in 1..Len(tracks[t]) :
                tracks[t][x].name \in {"Note On", "Note Off", "Pitch Wheel"}}} : t \in 1..Len(tracks)}
    \cup {tick_scales[n][1] : n \in 1..Len(tick_scales)}

\* the ticks the lookup is defined for
ValidTicks == {i - 1 : i \in DOMAIN tick_to_time}

MatchedAt(track, j) ==
    /\ IsNoteOff(track[j])
    /\ \E i \in 1..(j - 1) :
          /\ IsNoteOn(track[i])
          /\ KeyAt(track, i) = KeyAt(track, j)
          /\ \A k \in (i + 1)..(j - 1) :
                ~(IsNoteOff(track[k]) /\ KeyAt(track, k) = KeyAt(track, j))

\* the Notes a track gives when it is read alone
NotesFromTrack(track) == Cardinality({j \in 1..Len(track) : MatchedAt(track, j)})

RECURSIVE NotesFromTracks(_)
NotesFromTracks(midi_tracks) ==
    IF midi_tracks = <<>> THEN 0
    ELSE NotesFromTrack(Head(midi_tracks)) + NotesFromTracks(Tail(midi_tracks))

\* C16: every track starts with program 0 on all 16 channels and no pending
\* note-on; while a track is read the programs and the pending note-ons come
\* from the events of that track alone; so a Note-On is never matched by a
\* Note-Off of another track, a Program-Change does not reach another track and
\* a Note-On pending at the end of its track gives no Note
C16_PerTrackState ==
    [][/\ (AtEvent' /\ event_idx' = 1) =>
            last_note_on' = <<>> /\ current_instrument' = ZeroPrograms
       /\ AtEvent =>
            /\ current_instrument = ProgramsAfter(CurrentTrack, event_idx - 1)
            /\ \A key \in DOMAIN last_note_on :
                  \E i \in 1..(event_idx - 1) :
                      IsNoteOn(CurrentTrack[i]) /\ KeyAt(CurrentTrack, i) = key
            /\ SumLens(instruments') - TotalNotes =
                  IF MatchedAt(CurrentTrack, event_idx) THEN 1 ELSE 0
       /\ pc' = "done" => SumLens(instruments') = NotesFromTracks(tracks)]_vars

\* track 0 changes the program of channel 0 and leaves a Note-On pending; track 1
\* holds a whole note of channel 0: the one Note is that of track 1, in program 0
C16_Witness ==
    /\ pc = "done"
    /\ Len(tracks) = 2
    /\ Len(tracks[1]) = 2 /\ Len(tracks[2]) = 2
    /\ tracks[1][1].name = "Program Change" /\ tracks[1][1].channel = 0
    /\ IsNoteOn(tracks[1][2]) /\ tracks[1][2].channel = 0
    /\ IsNoteOn(tracks[2][1]) /\ tracks[2][1].channel = 0
    /\ IsNoteOff(tracks[2][2]) /\ tracks[2][2].channel = 0
    /\ Len(instruments) = 1
    /\ instruments[1].program = 0
    /\ Len(instruments[1].events) = 1

\* the last Note-On before event j of a track that has the key of event j
LatestOn(track, j) ==
    CHOOSE i \in 1..(j - 1) :
        /\ IsNoteOn(track[i]) /\ KeyAt(track, i) = KeyAt(track, j)
        /\ \A k \in (i + 1)..(j - 1) :
              ~(IsNoteOn(track[k]) /\ KeyAt(track, k) = KeyAt(track, j))

\* event j of a track is a note-off after two Note-Ons of its key with no
\* note-off of the key since the first of them
Retriggered(track, j) ==
    /\ IsNoteOff(track[j])
    /\ \E i1, i2 \in 1..(j - 1) :
          /\ i1 < i2
          /\ IsNoteOn(track[i1]) /\ KeyAt(track, i1) = KeyAt(track, j)
          /\ IsNoteOn(track[i2]) /\ KeyAt(track, i2) = KeyAt(track, j)
          /\ \A k \in (i1 + 1)..(j - 1) :
                ~(IsNoteOff(track[k]) /\ KeyAt(track, k) = KeyAt(track, j))

\* C17: two Note-Ons of one key with no note-off of the key between them, then
\* a note-off of the key: the note-off emits exactly one Note, which starts at
\* the time of the later Note-On, and leaves nothing pending for the key, so
\* the earlier onset gives no Note
C17_RetriggerKeepsLatestOnset ==
    [][(AtEvent /\ Retriggered(CurrentTrack, event_idx)) =>
          /\ SumLens(instruments') = TotalNotes + 1
          /\ \A i \in Grown :
                instruments'[i].events[Len(instruments'[i].events)].start =
                    TimeOf(CurrentTrack[LatestOn(CurrentTrack, event_idx)].tick)
          /\ NoteKey(current_instrument, CurrentEvent) \notin DOMAIN last_note_on']_vars

\* Note-On at tick 0, Note-On at tick 1, Note-Off at tick 2, all of one key:
\* one Note, from the time of tick 1
C17_Witness ==
    /\ pc = "done"
    /\ Len(tracks) = 1 /\ Len(tracks[1]) = 3
    /\ IsNoteOn(tracks[1][1]) /\ IsNoteOn(tracks[1][2]) /\ IsNoteOff(tracks[1][3])
    /\ KeyAt(tracks[1], 1) = KeyAt(tracks[1], 3) /\ KeyAt(tracks[1], 2) = KeyAt(tracks[1], 3)
    /\ tracks[1][2].tick = 1
    /\ TotalNotes = 1
    /\ \A n \in NotesOf(instruments) : n.start = TimeOf(1) /\ n.start > TimeOf(0)

\* the instruments with the program of the event's channel and its drum flag
MatchingInstruments ==
    {i \in 1..Len(instruments) :
        /\ instruments[i].program = current_instrument[CurrentEvent.channel]
        /\ instruments[i].is_drum = (CurrentEvent.channel = DrumChannel)}

\* C18: a Pitch-Wheel event on channel c appends one (time_of(tick), bend) to
\* the pitch bends of the one Instrument of (program of c, c = 9) and changes
\* no other Instrument; when there is no such Instrument, also with a note-on
\* pending for it, nothing is created and nothing changes
C18_PitchWheelToMatchingInstrument ==
    [][(AtEvent /\ CurrentEvent.name = "Pitch Wheel") =>
          /\ Cardinality(MatchingInstruments) <= 1
          /\ Len(instruments') = Len(instruments)
          /\ \A i \in 1..Len(instruments) :
                IF i \in MatchingInstruments
                THEN instruments'[i] =
                        [instruments[i] EXCEPT !.pitch_changes =
                            Append(@, <<TimeOf(CurrentEvent.tick), 2 * CurrentEvent.pitch>>)]
                ELSE instruments'[i] = instruments[i]
          /\ UNCHANGED <<last_note_on, current_instrument>>]_vars

\* a note of channel 0, then a Pitch-Wheel on channel 0 after tick 0: the
\* Instrument holds the bend
C18_Witness ==
    /\ pc = "done"
    /\ Len(tracks) = 1 /\ Len(tracks[1]) = 3
    /\ tracks[1][3].name = "Pitch Wheel" /\ tracks[1][3].tick > 0
    /\ Len(instruments) = 1
    /\ instruments[1].pitch_changes = <<<<TimeOf(tracks[1][3].tick), 2 * tracks[1][3].pitch>>>>

IsPrefix(s, t) == Len(s) <= Len(t) /\ SubSeq(t, 1, Len(s)) = s

\* C19: in every step the instrument list before is a prefix of the list after
\* as far as programs and drum flags go, and the notes and the pitch bends of
\* each Instrument before the step are prefixes of those after it
C19_AppendOnly ==
    [][/\ Len(instruments) <= Len(instruments')
       /\ \A i \in 1..Len(instruments) :
             /\ instruments'[i].program = instruments[i].program
             /\ instruments'[i].is_drum = instruments[i].is_drum
             /\ IsPrefix(instruments[i].events, instruments'[i].events)
             /\ IsPrefix(instruments[i].pitch_changes, instruments'[i].pitch_changes)]_vars

\* track 0 completed a note of channel 0, track 1 then a note and a pitch bend
\* of the drum channel: two Instruments, in the order of their first notes
C19_Witness ==
    /\ pc = "done"
    /\ Len(tracks) = 2
    /\ Len(instruments) = 2
    /\ ~instruments[1].is_drum /\ instruments[1].events # <<>>
    /\ instruments[2].is_drum /\ instruments[2].pitch_changes # <<>>

\* C20: every Instrument of the list holds a Note at every moment; the list
\* grows only in the step of a matched note-off, by one Instrument that holds
\* the Note of that step
C20_NoEmptyInstrument ==
    [][/\ \A i \in 1..Len(instruments') : instruments'[i].events # <<>>
       /\ Len(instruments') # Len(instruments) =>
             /\ MatchedOff
             /\ Len(instruments') = Len(instruments) + 1
             /\ Len(instruments'[Len(instruments')].events) = 1
             /\ instruments'[Len(instruments')].events[1].pitch = CurrentEvent.pitch]_vars

\* Program-Change, Note-On, Note-Off: the Instrument of program 1 came with the
\* note-off and holds its Note
C20_Witness ==
    /\ pc = "done"
    /\ Len(tracks) = 1 /\ Len(tracks[1]) = 3
    /\ tracks[1][1].name = "Program Change"
    /\ IsNoteOn(tracks[1][2]) /\ IsNoteOff(tracks[1][3])
    /\ Len(instruments) = 1
    /\ instruments[1].program = 1
    /\ Len(instruments[1].events) = 1

\* ceil(t*100) for a time t
CeilColumnOf(t) == (t * fs + UnitsPerSecond - 1) \div UnitsPerSecond

\* what the notes of pitch r add to column c (counted from 1) when each note
\* adds its velocity to the columns floor(start*100) .. floor(end*100) - 1
NotesAt(events, r, c) ==
    LET RECURSIVE Sum(_)
        Sum(i) ==
            IF i > Len(events) THEN 0
            ELSE (IF /\ events[i].pitch = r
                     /\ (events[i].start * fs) \div UnitsPerSecond <= c - 1
                     /\ c - 1 < (events[i].end * fs) \div UnitsPerSecond
                  THEN events[i].velocity ELSE 0) + Sum(i + 1)
    IN  Sum(1)

\* a call without a times grid on an instrument that holds a note
NativeCall ==
    /\ roll_result.status = "returned"
    /\ ~roll_times.given
    /\ roll_self.events # <<>>

\* C21: with no times grid the piano roll of an Instrument with a note has
\* ceil(end_time*100) columns, end_time the greatest end of its notes; of an
\* Instrument that is no drum (and has no pitch bend) each note adds its
\* velocity at the row of its pitch to the columns floor(start*100) up to, not
\* including, floor(end*100)
C21_CeilColumnsAndNoteRanges ==
    NativeCall =>
        /\ Columns(roll_result.roll) = CeilColumnOf(EndTime(roll_self.events))
        /\ (~roll_self.is_drum /\ roll_self.pitch_changes = <<>>) =>
              \A r \in Rows : \A c \in 1..Columns(roll_result.roll) :
                  roll_result.roll[r][c] = NotesAt(roll_self.events, r, c)

\* (program of the event's channel when event n of the track is read, drum
\* flag, pitch), written out
KeyOf(track, n) ==
    <<ProgramsAfter(track, n - 1)[track[n].channel], track[n].channel = DrumChannel,
      track[n].pitch>>

\* the Note-On at i is the onset waiting under its key when event j is read
WaitingAt(track, i, j) ==
    /\ i < j
    /\ IsNoteOn(track[i])
    /\ \A k \in (i + 1)..(j - 1) :
          ~((IsNoteOn(track[k]) \/ IsNoteOff(track[k])) /\ KeyOf(track, k) = KeyOf(track, i))

\* a note-off on a channel that is not the drum channel, and a waiting Note-On
\* of the same pitch received on another channel that is not the drum channel
CrossChannel(track, i, j) ==
    /\ IsNoteOff(track[j])
    /\ WaitingAt(track, i, j)
    /\ track[i].pitch = track[j].pitch
    /\ track[i].channel # track[j].channel
    /\ track[i].channel # DrumChannel /\ track[j].channel # DrumChannel

\* the step emits one Note that starts at the Note-On at i, and one key fewer waits
ConsumesOnset(i) ==
    /\ SumLens(instruments') = TotalNotes + 1
    /\ \A g \in Grown :
          instruments'[g].events[Len(instruments'[g].events)].start =
              TimeOf(CurrentTrack[i].tick)
    /\ Cardinality(DOMAIN last_note_on') = Cardinality(DOMAIN last_note_on) - 1

CountOn(s) == Cardinality({n \in 1..Len(s) : IsNoteOn(s[n])})
CountOff(s) == Cardinality({n \in 1..Len(s) : IsNoteOff(s[n])})

\* no more Notes than Note-Ons and than note-offs, track by track, over the
\* events read so far
RECURSIVE TracksBound(_, _)
TracksBound(midi_tracks, n) ==
    IF n = 0 THEN 0
    ELSE Min(CountOn(midi_tracks[n]), CountOff(midi_tracks[n])) + TracksBound(midi_tracks, n - 1)

ReadBound ==
    TracksBound(tracks, track_idx - 1)
    + (IF event_idx > 0
       THEN Min(CountOn(SubSeq(CurrentTrack, 1, event_idx - 1)),
                CountOff(SubSeq(CurrentTrack, 1, event_idx - 1)))
       ELSE 0)

\* every waiting key is the key of a Note-On read in the current track
WaitingKeysFromOnsets ==
    AtEvent =>
        DOMAIN last_note_on \subseteq
            {KeyOf(CurrentTrack, n) : n \in {x \in 1..(event_idx - 1) : IsNoteOn(CurrentTrack[x])}}

\* C22 as stated: a Note-Off on a non-drum channel c2 consumes a waiting
\* Note-On received on another non-drum channel c1 whenever both channels
\* have the same program when the Note-Off is read and the pitch is equal; a
\* key holds one onset at most; a track gives no more Notes than it has
\* Note-Ons, nor than it has note-offs
C22_OffConsumesOnCurrentPrograms ==
    [][/\ AtEvent =>
            \A i \in 1..(event_idx - 1) :
                (/\ CrossChannel(CurrentTrack, i, event_idx)
                 /\ current_instrument[CurrentTrack[i].channel] =
                        current_instrument[CurrentEvent.channel]) => ConsumesOnset(i)
       /\ WaitingKeysFromOnsets'
       /\ pc' \in {"instruments", "done"} => SumLens(instruments') <= ReadBound']_vars

\* C22, amended: the Note-Off on c2 consumes the waiting Note-On of c1 whenever
\* the program c2 has when the Note-Off is read is the program c1 had when the
\* Note-On was read, and the pitch is equal; the rest as stated
C22_OffConsumesOnKey ==
    [][/\ AtEvent =>
            \A i \in 1..(event_idx - 1) :
                (/\ CrossChannel(CurrentTrack, i, event_idx)
                 /\ KeyOf(CurrentTrack, i) = KeyOf(CurrentTrack, event_idx)) => ConsumesOnset(i)
       /\ WaitingKeysFromOnsets'
       /\ pc' \in {"instruments", "done"} => SumLens(instruments') <= ReadBound']_vars

\* Note-On on channel 0 at tick 0, Note-Off on channel 1 at tick 1, both of
\* program 0 and pitch 60: one Note
C22_Witness ==
    /\ pc = "done"
    /\ Len(tracks) = 1 /\ Len(tracks[1]) = 2
    /\ IsNoteOn(tracks[1][1]) /\ tracks[1][1].channel = 0
    /\ IsNoteOff(tracks[1][2]) /\ tracks[1][2].channel = 1
    /\ tracks[1][2].tick = 1
    /\ TotalNotes = 1
    /\ \A n \in NotesOf(instruments) : n.start = TimeOf(0) /\ n.end = TimeOf(1) /\ n.end > n.start

====
